---- MODULE Spec2Model ----
(***************************************************************************)
(* Promotion service (services/promocaoService.ts) over its storage        *)
(* adapters: the embedded SQL engine ("native"), the AsyncStorage document *)
(* of services/database/web.ts ("web") and the AsyncStorage document of    *)
(* services/database.ts ("webImpl").                                       *)
(*                                                                         *)
(* Every column value is a string, as in the JSON document; identifiers    *)
(* and counts are integers.  A JavaScript undefined (a property that is    *)
(* not there, which JSON.stringify drops) is the value Undefined, a JSON / *)
(* SQL null is the value Null.  Each await of the service is one step.     *)
(***************************************************************************)
EXTENDS Integers, Sequences, FiniteSets, TLC

VARIABLES backend, promocoes, historico_promocoes, seqPromocoes, seqHistorico,
          relogio, pc, op, id, data, updates, result, promocao, hoje,
          promocoesExpiradas, existeNoHistorico, antes, sweepAnterior,
          chamadas, falha, erro, callback, transacao, tarefas

vars == <<backend, promocoes, historico_promocoes, seqPromocoes, seqHistorico,
          relogio, pc, op, id, data, updates, result, promocao, hoje,
          promocoesExpiradas, existeNoHistorico, antes, sweepAnterior,
          chamadas, falha, erro, callback, transacao, tarefas>>

(* ------------------------------ bounds --------------------------------- *)
MaxDia == 3
MaxPromocoes == 2
MaxHistorico == 3
MaxChamadas == 4

(* ------------------------------ values --------------------------------- *)
Undefined == "undefined"
Null == "null"

\* the adapters the service runs on without a failing store: the native engine
\* behind native.ts, and the two JSON documents
Backends == {"native", "web", "webImpl"}

\* every adapter copy of the repository: also the native.ts copy that rethrows
\* ("nativeStrict") and NativeDatabaseImpl of database.ts ("nativeImpl")
Adaptadores == Backends \cup {"nativeStrict", "nativeImpl"}

\* the adapter is one over the embedded SQL engine
Nativo == backend \in {"native", "nativeStrict", "nativeImpl"}

\* new Date().toISOString().split('T')[0] on day n of the calendar
Dia(n) == "2025-01-0" \o ToString(n)
Dias == {Dia(n) : n \in 1..MaxDia}
DiaNum(s) == CHOOSE n \in 1..MaxDia : Dia(n) = s

\* a < b on two column values: ISO dates order as their days; every other
\* value that can reach a column here (a name, a discount, a status, null,
\* undefined) compares false against a date
Menor(a, b) == a \in Dias /\ b \in Dias /\ DiaNum(a) < DiaNum(b)

\* obj.nome in JavaScript: undefined when the object has no such property
Prop(obj, nome) == IF nome \in DOMAIN obj THEN obj[nome] ELSE Undefined

Ids(tabela) == {tabela[i].id : i \in 1..Len(tabela)}

\* Math.max(...tabela.map(r => r.id)) of a non-empty table
MaxId(tabela) == CHOOSE m \in Ids(tabela) : \A n \in Ids(tabela) : n <= m

Mapear(s, F(_)) == [i \in 1..Len(s) |-> F(s[i])]

\* Array.prototype.sort by a date column, descending, stable; also the order
\* ORDER BY ... DESC gives rows that are scanned in rowid order
RECURSIVE Inserir(_, _, _)
Inserir(r, s, coluna) ==
    IF s = <<>> THEN <<r>>
    ELSE IF Menor(r[coluna], Head(s)[coluna]) \/ r[coluna] = Head(s)[coluna]
         THEN <<Head(s)>> \o Inserir(r, Tail(s), coluna)
         ELSE <<r>> \o s

RECURSIVE OrdenarDesc(_, _)
OrdenarDesc(s, coluna) ==
    IF s = <<>> THEN <<>>
    ELSE Inserir(s[Len(s)], OrdenarDesc(SubSeq(s, 1, Len(s) - 1), coluna), coluna)

(* ---------------------- the service's statements ----------------------- *)
\* The SELECT statements of the service, named by the constant that receives
\* the result; Inclui(q) is the set of the adapters' patterns that the text
\* of statement q contains (query.includes(pattern)).
Inclui(query) ==
    CASE query = "buscarTodasPromocoes" -> {"ORDER BY data_criacao DESC"}
      [] query = "buscarHistoricoCompleto" -> {"ORDER BY data_acao DESC"}
      [] query = "promocoesExpiradas" -> {}
      [] query = "existeNoHistorico" ->
            {"WHERE promocao_id = ? AND acao = \"expirada\""}
      [] query = "total" -> {"SELECT COUNT(*) as count FROM promocoes"}
      [] query = "ativas" ->
            {"SELECT COUNT(*) as count FROM promocoes",
             "SELECT COUNT(*) as count FROM promocoes WHERE status = \"ativa\""}
      [] query = "expiradas" ->
            {"SELECT COUNT(*) as count FROM promocoes",
             "SELECT COUNT(*) as count FROM promocoes WHERE status = \"expirada\""}
      [] query = "canceladas" ->
            {"SELECT COUNT(*) as count FROM historico_promocoes WHERE acao = \"excluida\""}
      [] query = "buscarPromocoesPorStatus" -> {"ORDER BY data_criacao DESC"}
      [] query = "buscarPromocaoPorId" -> {"WHERE id = ?"}

\* the SELECT list of the promotion queries: snake-style columns under their
\* camel-style aliases
Promocao(r) ==
    [id |-> r.id, produtoId |-> r.produto_id, produtoNome |-> r.produto_nome,
     desconto |-> r.desconto, dataInicio |-> r.data_inicio,
     dataFim |-> r.data_fim, dataCriacao |-> r.data_criacao,
     status |-> r.status, dataExpiracao |-> r.data_expiracao]

\* the SELECT list of the history queries
HistoricoPromocao(h) ==
    [id |-> h.id, promocaoId |-> h.promocao_id, produtoNome |-> h.produto_nome,
     desconto |-> h.desconto, dataInicio |-> h.data_inicio,
     dataFim |-> h.data_fim, acao |-> h.acao, dataAcao |-> h.data_acao]

Contar(s, Teste(_)) == Len(SelectSeq(s, Teste))

(* ------------------- WebDatabase (database/web.ts) --------------------- *)
WebGetAllAsync(query, params) ==
    LET ativa(p) == p.status = "ativa"
        expirada(p) == p.status = "expirada"
        excluida(h) == h.acao = "excluída"
        aVencer(p) == Menor(p.data_fim, params[1]) /\ p.status = "ativa"
        porId(p) == p.id = params[1]
        jaExpirada(h) == h.promocao_id = params[1] /\ h.acao = "expirada"
    IN  IF "SELECT * FROM promocoes" \in Inclui(query) THEN promocoes
        ELSE IF "SELECT * FROM historico_promocoes" \in Inclui(query)
             THEN historico_promocoes
        ELSE IF "SELECT COUNT(*) as count FROM promocoes" \in Inclui(query)
             THEN <<[count |-> Len(promocoes)]>>
        ELSE IF "SELECT COUNT(*) as count FROM promocoes WHERE status = \"ativa\""
                  \in Inclui(query)
             THEN <<[count |-> Contar(promocoes, ativa)]>>
        ELSE IF "SELECT COUNT(*) as count FROM promocoes WHERE status = \"expirada\""
                  \in Inclui(query)
             THEN <<[count |-> Contar(promocoes, expirada)]>>
        ELSE IF "SELECT COUNT(*) as count FROM historico_promocoes WHERE acao = \"excluida\""
                  \in Inclui(query)
             THEN <<[count |-> Contar(historico_promocoes, excluida)]>>
        ELSE IF "WHERE data_fim < ? AND status = 'ativa'" \in Inclui(query)
             THEN SelectSeq(promocoes, aVencer)
        ELSE IF "WHERE id = ?" \in Inclui(query)
             THEN SelectSeq(promocoes, porId)
        ELSE IF "WHERE promocao_id = ? AND acao = \"expirada\"" \in Inclui(query)
             THEN SelectSeq(historico_promocoes, jaExpirada)
        ELSE IF "ORDER BY data_criacao DESC" \in Inclui(query)
             THEN OrdenarDesc(promocoes, "data_criacao")
        ELSE IF "ORDER BY data_acao DESC" \in Inclui(query)
             THEN OrdenarDesc(historico_promocoes, "data_acao")
        ELSE <<>>

(* ------------------ WebDatabaseImpl (database.ts) ---------------------- *)
WebImplGetAllAsync(query, params) ==
    LET aVencer(p) == Menor(p.data_fim, params[1]) /\ p.status = "ativa"
        porId(p) == p.id = params[1]
    IN  IF "SELECT * FROM promocoes" \in Inclui(query) THEN promocoes
        ELSE IF "SELECT * FROM historico_promocoes" \in Inclui(query)
             THEN historico_promocoes
        ELSE IF "SELECT status, COUNT(*) as count FROM promocoes" \in Inclui(query)
             THEN <<>>
        ELSE IF "WHERE data_fim < ? AND status = 'ativa'" \in Inclui(query)
             THEN SelectSeq(promocoes, aVencer)
        ELSE IF "WHERE id = ?" \in Inclui(query)
             THEN SelectSeq(promocoes, porId)
        ELSE <<>>

(* ------------------- NativeDatabase (expo-sqlite) ---------------------- *)
NativeGetAllAsync(query, params) ==
    LET ativa(p) == p.status = "ativa"
        expirada(p) == p.status = "expirada"
        excluida(h) == h.acao = "excluída"
        porStatus(p) == p.status = params[1]
        porId(p) == p.id = params[1]
        expiradaHoje(p) == p.data_expiracao = params[1] /\ p.status = "expirada"
        jaExpirada(h) == h.promocao_id = params[1] /\ h.acao = "expirada"
    IN  CASE query = "buscarTodasPromocoes" ->
               Mapear(OrdenarDesc(promocoes, "data_criacao"), Promocao)
          [] query = "buscarHistoricoCompleto" ->
               Mapear(OrdenarDesc(historico_promocoes, "data_acao"), HistoricoPromocao)
          [] query = "promocoesExpiradas" ->
               Mapear(SelectSeq(promocoes, expiradaHoje), Promocao)
          [] query = "existeNoHistorico" ->
               Mapear(SelectSeq(historico_promocoes, jaExpirada), HistoricoPromocao)
          [] query = "total" -> <<[count |-> Len(promocoes)]>>
          [] query = "ativas" -> <<[count |-> Contar(promocoes, ativa)]>>
          [] query = "expiradas" -> <<[count |-> Contar(promocoes, expirada)]>>
          [] query = "canceladas" ->
               <<[count |-> Contar(historico_promocoes, excluida)]>>
          [] query = "buscarPromocoesPorStatus" ->
               Mapear(OrdenarDesc(SelectSeq(promocoes, porStatus), "data_criacao"),
                      Promocao)
          [] query = "buscarPromocaoPorId" ->
               Mapear(SelectSeq(promocoes, porId), Promocao)

(* --------------------------- db.getAllAsync ---------------------------- *)
GetAllAsync(query, params) ==
    CASE Nativo -> NativeGetAllAsync(query, params)
      [] backend = "web" -> WebGetAllAsync(query, params)
      [] backend = "webImpl" -> WebImplGetAllAsync(query, params)

\* results.length > 0 ? results[0] : null, as a sequence of at most one row
GetFirstAsync(query, params) ==
    LET results == GetAllAsync(query, params)
    IN  IF Len(results) > 0 THEN <<results[1]>> ELSE <<>>

(* ----------------------------- db.runAsync ----------------------------- *)
\* lastInsertRowId of INSERT INTO promocoes: AUTOINCREMENT on the native
\* engine, Math.max(ids) + 1 (1 on an empty table) in the JSON documents
\* (newId of a table as runAsync has it: the engine's table, or the parsed
\* document that runAsync read)
NovoIdEm(tabela, seq) ==
    IF Nativo THEN seq + 1
    ELSE IF Len(tabela) > 0 THEN MaxId(tabela) + 1 ELSE 1

NovoIdPromocao == NovoIdEm(promocoes, seqPromocoes)

\* lastInsertRowId of INSERT INTO historico_promocoes
NovoIdHistorico == NovoIdEm(historico_promocoes, seqHistorico)

\* INSERT INTO promocoes (..., status) VALUES (?, ?, ?, ?, ?, ?, ?)
NovaPromocaoEm(tabela, params) ==
    [id |-> NovoIdEm(tabela, seqPromocoes), produto_id |-> params[1],
     produto_nome |-> params[2], desconto |-> params[3],
     data_inicio |-> params[4], data_fim |-> params[5],
     data_criacao |-> params[6], status |-> params[7],
     data_expiracao |-> IF backend = "webImpl" THEN Undefined ELSE Null]

NovaPromocao(params) == NovaPromocaoEm(promocoes, params)

\* INSERT INTO historico_promocoes (...) VALUES (?, ?, ?, ?, ?, ?, ?)
NovoHistoricoEm(tabela, params) ==
    [id |-> NovoIdEm(tabela, seqHistorico), promocao_id |-> params[1],
     produto_nome |-> params[2], desconto |-> params[3],
     data_inicio |-> params[4], data_fim |-> params[5],
     acao |-> params[6], data_acao |-> params[7]]

NovoHistorico(params) == NovoHistoricoEm(historico_promocoes, params)

InsertHistorico(params) == Append(historico_promocoes, NovoHistorico(params))

\* camposSnakeCase[campo] || campo
Coluna(campo) ==
    CASE campo = "produtoId" -> "produto_id"
      [] campo = "produtoNome" -> "produto_nome"
      [] campo = "dataInicio" -> "data_inicio"
      [] campo = "dataFim" -> "data_fim"
      [] campo = "dataCriacao" -> "data_criacao"
      [] campo = "dataExpiracao" -> "data_expiracao"
      [] OTHER -> campo

\* Object.keys(updates), Object.values(updates)
Campos(u) == [i \in 1..Len(u) |-> u[i][1]]
Valores(u) == [i \in 1..Len(u) |-> u[i][2]]
TemCampo(u, campo) == \E i \in 1..Len(u) : u[i][1] = campo

\* UPDATE promocoes SET c1 = ?, c2 = ? ... on one row of the SQL engine
RECURSIVE NativeSet(_, _)
NativeSet(r, u) ==
    IF u = <<>> THEN r
    ELSE NativeSet([r EXCEPT ![Coluna(u[1][1])] = u[1][2]], Tail(u))

\* web.ts, UPDATE ... WHERE id = ?, the branch that is not
\* "SET status = 'expirada'": paramIndex runs over the columns the text names
WebSet(r, u) ==
    LET params == Valores(u)
        d == TemCampo(u, "desconto")
        f == TemCampo(u, "dataFim")
        s == TemCampo(u, "status")
        iF == IF d THEN 2 ELSE 1
        iS == iF + (IF f THEN 1 ELSE 0)
    IN  [r EXCEPT !.desconto = IF d THEN params[1] ELSE @,
                  !.data_fim = IF f THEN params[iF] ELSE @,
                  !.status = IF s THEN params[iS] ELSE @]

\* database.ts, "Update generico": params = [...valores, id] by position;
\* the identifier, a number, is written as its decimal text
WebImplSet(r, u, pid) ==
    LET params == Valores(u) \o <<ToString(pid)>>
    IN  [r EXCEPT !.desconto = params[1],
                  !.data_fim = IF Len(params) >= 2 THEN params[2] ELSE @,
                  !.status = IF Len(params) >= 3 THEN params[3] ELSE @]

\* UPDATE promocoes SET <setClause> WHERE id = ?
UpdatePorIdEm(tabela, u, pid) ==
    [i \in 1..Len(tabela) |->
        IF tabela[i].id # pid THEN tabela[i]
        ELSE CASE Nativo -> NativeSet(tabela[i], u)
               [] backend = "web" -> WebSet(tabela[i], u)
               [] backend = "webImpl" -> WebImplSet(tabela[i], u, pid)]

UpdatePorId(u, pid) == UpdatePorIdEm(promocoes, u, pid)

\* a sweep that also sets every other dated row back to 'ativa'
UpdateExpiradas_Reativa(h) ==
    [i \in 1..Len(promocoes) |->
        IF Menor(promocoes[i].data_fim, h) /\ promocoes[i].status = "ativa"
        THEN [promocoes[i] EXCEPT !.status = "expirada", !.data_expiracao = h]
        ELSE IF promocoes[i].data_fim \in Dias /\ ~Menor(promocoes[i].data_fim, h)
             THEN [promocoes[i] EXCEPT !.status = "ativa"]
             ELSE promocoes[i]]

\* UPDATE promocoes SET status = 'expirada', data_expiracao = ?
\*  WHERE data_fim < ? AND status = 'ativa'
\* (database.ts has no branch for a text without "WHERE id = ?")
UpdateExpiradasEm(tabela, h) ==
    IF backend = "webImpl" THEN tabela
    ELSE [i \in 1..Len(tabela) |->
            IF Menor(tabela[i].data_fim, h) /\ tabela[i].status = "ativa"
            THEN [tabela[i] EXCEPT !.status = "expirada", !.data_expiracao = h]
            ELSE tabela[i]]

UpdateExpiradas(h) == UpdateExpiradasEm(promocoes, h)

\* a DELETE whose filter keeps p.id > id in place of p.id !== id
DeletePorId_AteId(pid) ==
    LET maior(p) == p.id > pid IN SelectSeq(promocoes, maior)

\* DELETE FROM promocoes WHERE id = ?
DeletePorIdEm(tabela, pid) ==
    LET outro(p) == p.id # pid IN SelectSeq(tabela, outro)

DeletePorId(pid) == DeletePorIdEm(promocoes, pid)

(* ------------------------- service: the reads -------------------------- *)
BuscarTodasPromocoes == GetAllAsync("buscarTodasPromocoes", <<>>)
BuscarHistoricoCompleto == GetAllAsync("buscarHistoricoCompleto", <<>>)
BuscarPromocoesPorStatus(s) == GetAllAsync("buscarPromocoesPorStatus", <<s>>)
BuscarPromocaoPorId(pid) == GetFirstAsync("buscarPromocaoPorId", <<pid>>)

\* x?.count || 0
CountOu0(x) == IF x = <<>> THEN 0 ELSE x[1].count

ObterEstatisticasPromocoes ==
    [total |-> CountOu0(GetFirstAsync("total", <<>>)),
     ativas |-> CountOu0(GetFirstAsync("ativas", <<>>)),
     expiradas |-> CountOu0(GetFirstAsync("expiradas", <<>>)),
     canceladas |-> CountOu0(GetFirstAsync("canceladas", <<>>))]

(* ------------------------------- inputs -------------------------------- *)
Nomes == {"A"}
Descontos == {"10"}

\* CriarPromocaoData
DadosDeCriacao ==
    [produtoId : {"p1"}, produtoNome : Nomes, desconto : Descontos,
     dataInicio : {Dia(1)}, dataFim : Dias, dataCriacao : {Dia(relogio)}]

\* Partial<Promocao>: the keys a caller sets, in insertion order, with the
\* value of each
UpdatesPossiveis ==
    {<<>>,
     <<<<"desconto", "30">>>>,
     <<<<"dataInicio", Dia(2)>>>>,
     <<<<"dataFim", Dia(1)>>>>,
     <<<<"status", "ativa">>>>,
     <<<<"status", "expirada">>>>,
     <<<<"produtoNome", "C">>, <<"desconto", "30">>>>,
     <<<<"dataFim", Dia(MaxDia)>>, <<"desconto", "30">>>>}

\* the identifiers a caller passes: those stored and one that is not
IdsDeEntrada == Ids(promocoes) \cup {NovoIdPromocao}

SemDados ==
    [produtoId |-> "", produtoNome |-> "", desconto |-> "", dataInicio |-> "",
     dataFim |-> "", dataCriacao |-> ""]
SemAntes == [promocoes |-> <<>>, historico_promocoes |-> <<>>]
\* no unit of work: passos are the statements a callback awaits, in order,
\* proximo is the one it is at
SemCallback == [passos |-> <<>>, proximo |-> 1]
Agora == [promocoes |-> promocoes, historico_promocoes |-> historico_promocoes]

(* ----------------------------- Init ------------------------------------ *)
\* empty tables, no call in progress
Vazio ==
    /\ promocoes = <<>>
    /\ historico_promocoes = <<>>
    /\ seqPromocoes = 0
    /\ seqHistorico = 0
    /\ relogio = 1
    /\ pc = "idle"
    /\ op = ""
    /\ id = 0
    /\ data = SemDados
    /\ updates = <<>>
    /\ result = 0
    /\ promocao = <<>>
    /\ hoje = ""
    /\ promocoesExpiradas = <<>>
    /\ existeNoHistorico = <<>>
    /\ antes = SemAntes
    /\ sweepAnterior = 0
    /\ chamadas = 0
    /\ falha = {}
    /\ erro = ""
    /\ callback = SemCallback
    /\ transacao = <<>>
    /\ tarefas = <<>>

Init == backend \in Backends /\ Vazio

Banco == <<promocoes, historico_promocoes, seqPromocoes, seqHistorico>>
\* what no step of the four service operations touches while every statement
\* succeeds: the failure of a statement and the error thrown to the caller,
\* the unit of work and open transaction of withTransactionAsync, and the
\* calls that run interleaved
ForaDaChamada == <<falha, erro, callback, transacao, tarefas>>
Locais == <<id, data, updates, result, promocao, hoje, promocoesExpiradas,
            existeNoHistorico>>

\* the history insert of the statement in progress, with its rowid sequence
GravarHistorico(params) ==
    /\ historico_promocoes' = InsertHistorico(params)
    /\ seqHistorico' = IF Nativo THEN NovoIdHistorico ELSE seqHistorico

(* --------------------------- criarPromocao ----------------------------- *)
\* new Date(data.dataFim) > new Date(): midnight of dataFim against now
StatusInicial(dataFim) ==
    IF Menor(Dia(relogio), dataFim) THEN "ativa" ELSE "expirada"

CriarPromocao(d) ==
    /\ pc = "idle"
    /\ chamadas < MaxChamadas
    /\ chamadas' = chamadas + 1
    /\ Len(promocoes) < MaxPromocoes
    /\ Len(historico_promocoes) < MaxHistorico
    /\ promocoes' = Append(promocoes,
          NovaPromocao(<<d.produtoId, d.produtoNome, d.desconto, d.dataInicio,
                         d.dataFim, d.dataCriacao, StatusInicial(d.dataFim)>>))
    /\ seqPromocoes' = IF Nativo THEN NovoIdPromocao ELSE seqPromocoes
    /\ result' = NovoIdPromocao
    /\ op' = "criarPromocao"
    /\ data' = d
    /\ antes' = Agora
    /\ pc' = "criar_historico"
    /\ UNCHANGED <<backend, ForaDaChamada, historico_promocoes, seqHistorico, relogio, id, updates,
                   promocao, hoje, promocoesExpiradas, existeNoHistorico,
                   sweepAnterior>>

\* criarPromocao with the start and end date of its history entry exchanged
CriarPromocaoHistorico_DatasTrocadas ==
    /\ pc = "criar_historico"
    /\ GravarHistorico(<<result, data.produtoNome, data.desconto, data.dataFim,
                         data.dataInicio, "criada", data.dataCriacao>>)
    /\ pc' = "ret"
    /\ UNCHANGED <<chamadas, backend, ForaDaChamada, promocoes, seqPromocoes, relogio, op, Locais,
                   antes, sweepAnterior>>

CriarPromocaoHistorico ==
    /\ pc = "criar_historico"
    /\ GravarHistorico(<<result, data.produtoNome, data.desconto, data.dataInicio,
                         data.dataFim, "criada", data.dataCriacao>>)
    /\ pc' = "ret"
    /\ UNCHANGED <<chamadas, backend, ForaDaChamada, promocoes, seqPromocoes, relogio, op, Locais, antes, sweepAnterior>>

(* -------------------------- atualizarPromocao -------------------------- *)
\* updates.desconto
ValorDe(u, campo) == u[CHOOSE i \in 1..Len(u) : u[i][1] = campo][2]

\* atualizarPromocao without its "if (updates.desconto !== undefined)" block
AtualizarPromocao_SemHistorico(pid, u) ==
    /\ pc = "idle"
    /\ chamadas < MaxChamadas
    /\ chamadas' = chamadas + 1
    /\ op' = "atualizarPromocao"
    /\ id' = pid
    /\ updates' = u
    /\ antes' = Agora
    /\ promocoes' = IF Len(Campos(u)) = 0 THEN promocoes ELSE UpdatePorId(u, pid)
    /\ pc' = "ret"
    /\ UNCHANGED <<backend, ForaDaChamada, historico_promocoes, seqPromocoes, seqHistorico, relogio,
                   data, result, promocao, hoje, promocoesExpiradas,
                   existeNoHistorico, sweepAnterior>>

\* atualizarPromocao without its "if (campos.length === 0) return"
AtualizarPromocao_SemRetornoCedo(pid, u) ==
    /\ pc = "idle"
    /\ chamadas < MaxChamadas
    /\ chamadas' = chamadas + 1
    /\ TemCampo(u, "desconto") => Len(historico_promocoes) < MaxHistorico
    /\ op' = "atualizarPromocao"
    /\ id' = pid
    /\ updates' = u
    /\ antes' = Agora
    /\ promocoes' = UpdatePorId(u, pid)
    /\ pc' = IF TemCampo(u, "desconto") THEN "atualizar_busca" ELSE "ret"
    /\ UNCHANGED <<backend, ForaDaChamada, historico_promocoes, seqPromocoes, seqHistorico, relogio,
                   data, result, promocao, hoje, promocoesExpiradas,
                   existeNoHistorico, sweepAnterior>>

AtualizarPromocao(pid, u) ==
    /\ pc = "idle"
    /\ chamadas < MaxChamadas
    /\ chamadas' = chamadas + 1
    /\ TemCampo(u, "desconto") => Len(historico_promocoes) < MaxHistorico
    /\ op' = "atualizarPromocao"
    /\ id' = pid
    /\ updates' = u
    /\ antes' = Agora
    /\ IF Len(Campos(u)) = 0
       THEN /\ pc' = "ret"
            /\ UNCHANGED promocoes
       ELSE /\ promocoes' = UpdatePorId(u, pid)
            /\ pc' = IF TemCampo(u, "desconto") THEN "atualizar_busca" ELSE "ret"
    /\ UNCHANGED <<backend, ForaDaChamada, historico_promocoes, seqPromocoes, seqHistorico, relogio,
                   data, result, promocao, hoje, promocoesExpiradas,
                   existeNoHistorico, sweepAnterior>>

AtualizarPromocaoBusca ==
    /\ pc = "atualizar_busca"
    /\ promocao' = BuscarPromocaoPorId(id)
    /\ pc' = IF promocao' # <<>> THEN "atualizar_historico" ELSE "ret"
    /\ UNCHANGED <<chamadas, backend, ForaDaChamada, Banco, relogio, op, id, data, updates, result, hoje,
                   promocoesExpiradas, existeNoHistorico, antes,
                   sweepAnterior>>

AtualizarPromocaoHistorico ==
    /\ pc = "atualizar_historico"
    /\ GravarHistorico(<<id, Prop(promocao[1], "produtoNome"),
                         ValorDe(updates, "desconto"),
                         Prop(promocao[1], "dataInicio"),
                         Prop(promocao[1], "dataFim"), "atualizada", Dia(relogio)>>)
    /\ pc' = "ret"
    /\ UNCHANGED <<chamadas, backend, ForaDaChamada, promocoes, seqPromocoes, relogio, op, Locais, antes, sweepAnterior>>

(* --------------------------- excluirPromocao --------------------------- *)
ExcluirPromocao(pid) ==
    /\ pc = "idle"
    /\ chamadas < MaxChamadas
    /\ chamadas' = chamadas + 1
    /\ Len(historico_promocoes) < MaxHistorico
    /\ op' = "excluirPromocao"
    /\ id' = pid
    /\ antes' = Agora
    /\ promocao' = BuscarPromocaoPorId(pid)
    /\ pc' = IF promocao' # <<>> THEN "excluir_historico" ELSE "excluir_delete"
    /\ UNCHANGED <<backend, ForaDaChamada, Banco, relogio, data, updates, result, hoje,
                   promocoesExpiradas, existeNoHistorico, sweepAnterior>>

\* excluirPromocao that goes on to the DELETE without its history insert
ExcluirPromocaoHistorico_SemGravar ==
    /\ pc = "excluir_historico"
    /\ pc' = "excluir_delete"
    /\ UNCHANGED <<chamadas, backend, ForaDaChamada, Banco, relogio, op, Locais, antes,
                   sweepAnterior>>

ExcluirPromocaoHistorico ==
    /\ pc = "excluir_historico"
    /\ GravarHistorico(<<id, Prop(promocao[1], "produtoNome"),
                         Prop(promocao[1], "desconto"),
                         Prop(promocao[1], "dataInicio"),
                         Prop(promocao[1], "dataFim"), "excluída", Dia(relogio)>>)
    /\ pc' = "excluir_delete"
    /\ UNCHANGED <<chamadas, backend, ForaDaChamada, promocoes, seqPromocoes, relogio, op, Locais, antes, sweepAnterior>>

\* excluirPromocao that also removes the history entries of the promotion
ExcluirPromocaoDelete_Cascata ==
    /\ pc = "excluir_delete"
    /\ promocoes' = DeletePorId(id)
    /\ historico_promocoes' =
          LET deOutra(h) == h.promocao_id # id
          IN  SelectSeq(historico_promocoes, deOutra)
    /\ pc' = "ret"
    /\ UNCHANGED <<chamadas, backend, ForaDaChamada, seqPromocoes, seqHistorico, relogio, op, Locais,
                   antes, sweepAnterior>>

ExcluirPromocaoDelete ==
    /\ pc = "excluir_delete"
    /\ promocoes' = DeletePorId(id)
    /\ pc' = "ret"
    /\ UNCHANGED <<chamadas, backend, ForaDaChamada, historico_promocoes, seqPromocoes, seqHistorico, relogio,
                   op, Locais, antes, sweepAnterior>>

(* ----------------------- atualizarStatusPromocoes ---------------------- *)
\* the rows one run on day h can write a history entry for, at most
Candidatas(h) ==
    LET candidata(p) == \/ Menor(p.data_fim, h) /\ p.status = "ativa"
                        \/ p.data_expiracao = h /\ p.status = "expirada"
    IN  Contar(promocoes, candidata)

AtualizarStatusPromocoes ==
    /\ pc = "idle"
    /\ chamadas < MaxChamadas
    /\ chamadas' = chamadas + 1
    /\ Len(historico_promocoes) + Candidatas(Dia(relogio)) <= MaxHistorico
    /\ op' = "atualizarStatusPromocoes"
    /\ antes' = Agora
    /\ hoje' = Dia(relogio)
    /\ promocoes' = UpdateExpiradas(hoje')
    /\ pc' = "sweep_select"
    /\ UNCHANGED <<backend, ForaDaChamada, historico_promocoes, seqPromocoes, seqHistorico, relogio,
                   id, data, updates, result, promocao, promocoesExpiradas,
                   existeNoHistorico, sweepAnterior>>

AtualizarStatusSelect ==
    /\ pc = "sweep_select"
    /\ promocoesExpiradas' = GetAllAsync("promocoesExpiradas", <<hoje>>)
    /\ pc' = IF promocoesExpiradas' = <<>> THEN "ret" ELSE "sweep_existe"
    /\ UNCHANGED <<chamadas, backend, ForaDaChamada, Banco, relogio, op, id, data, updates, result, promocao,
                   hoje, existeNoHistorico, antes, sweepAnterior>>

\* the for loop without its "if (!existeNoHistorico)" guard
AtualizarStatusExiste_SemVerificar ==
    /\ pc = "sweep_existe"
    /\ promocao' = <<Head(promocoesExpiradas)>>
    /\ existeNoHistorico' = <<>>
    /\ pc' = "sweep_historico"
    /\ UNCHANGED <<chamadas, backend, ForaDaChamada, Banco, relogio, op, id, data, updates, result,
                   hoje, promocoesExpiradas, antes, sweepAnterior>>

\* one turn of the for loop up to its getFirstAsync
AtualizarStatusExiste ==
    /\ pc = "sweep_existe"
    /\ promocao' = <<Head(promocoesExpiradas)>>
    /\ existeNoHistorico' = GetFirstAsync("existeNoHistorico", <<Head(promocoesExpiradas).id>>)
    /\ IF existeNoHistorico' = <<>>
       THEN /\ pc' = "sweep_historico"
            /\ UNCHANGED promocoesExpiradas
       ELSE /\ promocoesExpiradas' = Tail(promocoesExpiradas)
            /\ pc' = IF promocoesExpiradas' = <<>> THEN "ret" ELSE "sweep_existe"
    /\ UNCHANGED <<chamadas, backend, ForaDaChamada, Banco, relogio, op, id, data, updates, result, hoje,
                   antes, sweepAnterior>>

\* the rest of the turn when no 'expirada' entry was found
AtualizarStatusHistorico ==
    /\ pc = "sweep_historico"
    /\ GravarHistorico(<<promocao[1].id, Prop(promocao[1], "produtoNome"),
                         Prop(promocao[1], "desconto"),
                         Prop(promocao[1], "dataInicio"),
                         Prop(promocao[1], "dataFim"), "expirada", hoje>>)
    /\ promocoesExpiradas' = Tail(promocoesExpiradas)
    /\ pc' = IF promocoesExpiradas' = <<>> THEN "ret" ELSE "sweep_existe"
    /\ UNCHANGED <<chamadas, backend, ForaDaChamada, promocoes, seqPromocoes, relogio, op, id, data, updates,
                   result, promocao, hoje, existeNoHistorico, antes,
                   sweepAnterior>>

(* -------------------- return to the caller, the clock ------------------ *)
Retornar ==
    /\ pc = "ret"
    /\ pc' = "idle"
    /\ sweepAnterior' = IF op = "atualizarStatusPromocoes" THEN DiaNum(hoje) ELSE 0
    /\ op' = ""
    /\ id' = 0
    /\ data' = SemDados
    /\ updates' = <<>>
    /\ result' = 0
    /\ promocao' = <<>>
    /\ hoje' = ""
    /\ promocoesExpiradas' = <<>>
    /\ existeNoHistorico' = <<>>
    /\ antes' = SemAntes
    /\ falha' = {}
    /\ erro' = ""
    /\ callback' = SemCallback
    /\ UNCHANGED <<chamadas, backend, transacao, tarefas, Banco, relogio>>

\* new Date() moves to the next calendar day.  Every operation reads the
\* clock once, so a day that passes during an operation leaves the tables as
\* a day that passes right before or right after it
PassarDia ==
    /\ pc = "idle"
    /\ relogio < MaxDia
    /\ relogio' = relogio + 1
    /\ UNCHANGED <<chamadas, backend, ForaDaChamada, Banco, pc, op, Locais, antes, sweepAnterior>>

Next ==
    \/ \E d \in DadosDeCriacao : CriarPromocao(d)
    \/ CriarPromocaoHistorico
    \/ \E pid \in IdsDeEntrada, u \in UpdatesPossiveis : AtualizarPromocao(pid, u)
    \/ AtualizarPromocaoBusca
    \/ AtualizarPromocaoHistorico
    \/ \E pid \in IdsDeEntrada : ExcluirPromocao(pid)
    \/ ExcluirPromocaoHistorico
    \/ ExcluirPromocaoDelete
    \/ AtualizarStatusPromocoes
    \/ AtualizarStatusSelect
    \/ AtualizarStatusExiste
    \/ AtualizarStatusHistorico
    \/ Retornar
    \/ PassarDia

Spec == Init /\ [][Next]_vars

(* ------------------ a statement that fails in the store ---------------- *)
\* the catch block of runAsync: the native.ts copy in web.ts logs and throws,
\* every other adapter logs and returns {lastInsertRowId: 0, changes: 0}
RunAsyncRelanca == backend = "nativeStrict"

\* criarPromocao whose INSERT INTO promocoes fails: the strict adapter throws
\* into the catch block of criarPromocao, which throws again; on the others
\* result.lastInsertRowId is 0 and the call goes on
CriarPromocaoFalha(d) ==
    /\ pc = "idle"
    /\ chamadas < MaxChamadas
    /\ chamadas' = chamadas + 1
    /\ Len(historico_promocoes) < MaxHistorico
    /\ op' = "criarPromocao"
    /\ data' = d
    /\ antes' = Agora
    /\ result' = 0
    /\ falha' = {"promocoes"}
    /\ erro' = IF RunAsyncRelanca THEN "lançado" ELSE ""
    /\ pc' = IF RunAsyncRelanca THEN "ret" ELSE "criar_historico"
    /\ UNCHANGED <<backend, Banco, relogio, id, updates, promocao, hoje,
                   promocoesExpiradas, existeNoHistorico, sweepAnterior,
                   callback, transacao, tarefas>>

\* criarPromocao whose INSERT INTO historico_promocoes fails
CriarPromocaoHistoricoFalha ==
    /\ pc = "criar_historico"
    /\ falha' = falha \cup {"historico_promocoes"}
    /\ erro' = IF RunAsyncRelanca THEN "lançado" ELSE ""
    /\ pc' = "ret"
    /\ UNCHANGED <<chamadas, backend, Banco, relogio, op, Locais, antes,
                   sweepAnterior, callback, transacao, tarefas>>

(* ------------------------- withTransactionAsync ------------------------ *)
\* the units of work: async callbacks that await the two inserts of
\* criarPromocao through db.runAsync and throw, or not, after one or both
Callbacks ==
    {<<"promocoes", "historico_promocoes">>,
     <<"promocoes", "throw">>,
     <<"promocoes", "historico_promocoes", "throw">>}

Passo == callback.passos[callback.proximo]
Avancar == [callback EXCEPT !.proximo = @ + 1]

\* BEGIN TRANSACTION: what ROLLBACK brings back, the sqlite_sequence rows too
Salvo ==
    [promocoes |-> promocoes, historico_promocoes |-> historico_promocoes,
     seqPromocoes |-> seqPromocoes, seqHistorico |-> seqHistorico]

\* withTransactionAsync(callback) up to the call of callback: native.ts
\* begins a transaction; NativeDatabaseImpl calls the callback inside
\* withTransactionSync; the JSON adapters only call it
WithTransactionAsync(cb, d) ==
    /\ pc = "idle"
    /\ chamadas < MaxChamadas
    /\ chamadas' = chamadas + 1
    /\ Len(promocoes) < MaxPromocoes
    /\ Len(historico_promocoes) < MaxHistorico
    /\ op' = "withTransactionAsync"
    /\ callback' = [passos |-> cb, proximo |-> 1]
    /\ data' = d
    /\ antes' = Agora
    /\ transacao' = IF Nativo THEN <<Salvo>> ELSE <<>>
    /\ pc' = "tx_callback"
    /\ UNCHANGED <<backend, Banco, relogio, id, updates, result, promocao, hoje,
                   promocoesExpiradas, existeNoHistorico, sweepAnterior,
                   falha, erro, tarefas>>

\* withTransactionSync returns, and commits, when the async callback reaches
\* its first await: after the runSync of its first db.runAsync
AposPasso == IF backend = "nativeImpl" THEN <<>> ELSE transacao

\* the callback's await db.runAsync(INSERT INTO promocoes ...)
CallbackInsertPromocao ==
    /\ pc = "tx_callback"
    /\ callback.proximo <= Len(callback.passos)
    /\ Passo = "promocoes"
    /\ promocoes' = Append(promocoes,
          NovaPromocao(<<data.produtoId, data.produtoNome, data.desconto,
                         data.dataInicio, data.dataFim, data.dataCriacao,
                         StatusInicial(data.dataFim)>>))
    /\ seqPromocoes' = IF Nativo THEN NovoIdPromocao ELSE seqPromocoes
    /\ result' = NovoIdPromocao
    /\ callback' = Avancar
    /\ transacao' = AposPasso
    /\ UNCHANGED <<chamadas, backend, historico_promocoes, seqHistorico, relogio,
                   pc, op, id, data, updates, promocao, hoje, promocoesExpiradas,
                   existeNoHistorico, antes, sweepAnterior, falha, erro, tarefas>>

\* the callback's await db.runAsync(INSERT INTO historico_promocoes ...)
CallbackInsertHistorico ==
    /\ pc = "tx_callback"
    /\ callback.proximo <= Len(callback.passos)
    /\ Passo = "historico_promocoes"
    /\ GravarHistorico(<<result, data.produtoNome, data.desconto, data.dataInicio,
                         data.dataFim, "criada", data.dataCriacao>>)
    /\ callback' = Avancar
    /\ transacao' = AposPasso
    /\ UNCHANGED <<chamadas, backend, promocoes, seqPromocoes, relogio, pc, op,
                   Locais, antes, sweepAnterior, falha, erro, tarefas>>

\* a db.runAsync of the callback that fails in the store: the strict adapter
\* throws inside the callback, the others return zeros and the callback goes on
CallbackRunAsyncFalha ==
    /\ pc = "tx_callback"
    /\ callback.proximo <= Len(callback.passos)
    /\ Passo \in {"promocoes", "historico_promocoes"}
    /\ falha' = falha \cup {Passo}
    /\ result' = IF Passo = "promocoes" THEN 0 ELSE result
    /\ callback' = Avancar
    /\ transacao' = AposPasso
    /\ pc' = IF RunAsyncRelanca THEN "tx_catch" ELSE "tx_callback"
    /\ UNCHANGED <<chamadas, backend, Banco, relogio, op, id, data, updates,
                   promocao, hoje, promocoesExpiradas, existeNoHistorico, antes,
                   sweepAnterior, erro, tarefas>>

\* the callback throws
CallbackThrow ==
    /\ pc = "tx_callback"
    /\ callback.proximo <= Len(callback.passos)
    /\ Passo = "throw"
    /\ callback' = Avancar
    /\ pc' = "tx_catch"
    /\ UNCHANGED <<chamadas, backend, Banco, relogio, op, Locais, antes,
                   sweepAnterior, falha, erro, transacao, tarefas>>

\* the callback's promise resolves: COMMIT where a transaction is open
WithTransactionAsyncCommit ==
    /\ pc = "tx_callback"
    /\ callback.proximo > Len(callback.passos)
    /\ transacao' = <<>>
    /\ pc' = "ret"
    /\ UNCHANGED <<chamadas, backend, Banco, relogio, op, Locais, antes,
                   sweepAnterior, falha, erro, callback, tarefas>>

\* the callback's promise rejects: ROLLBACK where a transaction is open, and
\* the error goes on to the caller
WithTransactionAsyncCatch ==
    /\ pc = "tx_catch"
    /\ IF transacao # <<>>
       THEN /\ promocoes' = transacao[1].promocoes
            /\ historico_promocoes' = transacao[1].historico_promocoes
            /\ seqPromocoes' = transacao[1].seqPromocoes
            /\ seqHistorico' = transacao[1].seqHistorico
       ELSE UNCHANGED Banco
    /\ transacao' = <<>>
    /\ erro' = "lançado"
    /\ pc' = "ret"
    /\ UNCHANGED <<chamadas, backend, relogio, op, Locais, antes, sweepAnterior,
                   falha, callback, tarefas>>

InitFalha == backend \in Adaptadores /\ Vazio

NextFalha ==
    \/ \E d \in DadosDeCriacao : CriarPromocao(d)
    \/ CriarPromocaoHistorico
    \/ \E d \in DadosDeCriacao : CriarPromocaoFalha(d)
    \/ CriarPromocaoHistoricoFalha
    \/ \E cb \in Callbacks, d \in DadosDeCriacao : WithTransactionAsync(cb, d)
    \/ CallbackInsertPromocao
    \/ CallbackInsertHistorico
    \/ CallbackRunAsyncFalha
    \/ CallbackThrow
    \/ WithTransactionAsyncCommit
    \/ WithTransactionAsyncCatch
    \/ Retornar
    \/ PassarDia

SpecFalha == InitFalha /\ [][NextFalha]_vars

(* -------------------- calls that run interleaved ----------------------- *)
\* Promise.all of service calls: each element of tarefas is one call with its
\* own local constants; a step of a call runs from one await to the next.
MaxTarefas == 2

\* the db.runAsync a call is awaiting: the branch of runAsync its text takes
\* (query.startsWith, query.includes) and its params
SemStmt == [tipo |-> "", params |-> <<>>]

NovaTarefa ==
    [op |-> "", pc |-> "", id |-> 0, data |-> SemDados, updates |-> <<>>,
     result |-> 0, promocao |-> <<>>, hoje |-> "", promocoesExpiradas |-> <<>>,
     stmt |-> SemStmt, depois |-> "", database |-> <<>>]

\* db.runAsync(query, params) called: the call goes on at pc depois when the
\* statement has run
Await(tarefa, tipo, params, depois) ==
    [tarefa EXCEPT !.stmt = [tipo |-> tipo, params |-> params],
                   !.pc = "runAsync", !.depois = depois]

\* the body of runAsync between its read and its write of the tables, on the
\* tables doc
Executar(stmt, doc) ==
    CASE stmt.tipo = "INSERT INTO promocoes" ->
            [doc EXCEPT !.promocoes =
                Append(doc.promocoes, NovaPromocaoEm(doc.promocoes, stmt.params))]
      [] stmt.tipo = "INSERT INTO historico_promocoes" ->
            [doc EXCEPT !.historico_promocoes =
                Append(doc.historico_promocoes,
                       NovoHistoricoEm(doc.historico_promocoes, stmt.params))]
      [] stmt.tipo = "UPDATE promocoes WHERE id = ?" ->
            [doc EXCEPT !.promocoes =
                UpdatePorIdEm(doc.promocoes, stmt.params[1], stmt.params[2])]
      [] stmt.tipo = "UPDATE promocoes WHERE data_fim < ?" ->
            [doc EXCEPT !.promocoes = UpdateExpiradasEm(doc.promocoes, stmt.params[1])]
      [] stmt.tipo = "DELETE FROM promocoes" ->
            [doc EXCEPT !.promocoes = DeletePorIdEm(doc.promocoes, stmt.params[1])]

\* lastInsertRowId of the statement on the tables doc
LastInsertRowId(stmt, doc) ==
    CASE stmt.tipo = "INSERT INTO promocoes" -> NovoIdEm(doc.promocoes, seqPromocoes)
      [] stmt.tipo = "INSERT INTO historico_promocoes" ->
            NovoIdEm(doc.historico_promocoes, seqHistorico)
      [] OTHER -> 0

\* the call t once its statement has run on doc: criarPromocao keeps the
\* result of its first insert
Retomar(t, doc) ==
    [tarefas EXCEPT
        ![t].result = IF tarefas[t].stmt.tipo = "INSERT INTO promocoes"
                      THEN LastInsertRowId(tarefas[t].stmt, doc) ELSE @,
        ![t].stmt = SemStmt,
        ![t].database = <<>>,
        ![t].pc = tarefas[t].depois,
        ![t].depois = ""]

\* the tables become doc after the statement of call t
Gravar(t, antesDoc) ==
    LET doc == Executar(tarefas[t].stmt, antesDoc)
    IN  /\ promocoes' = doc.promocoes
        /\ historico_promocoes' = doc.historico_promocoes
        /\ seqPromocoes' = IF Nativo /\ tarefas[t].stmt.tipo = "INSERT INTO promocoes"
                           THEN seqPromocoes + 1 ELSE seqPromocoes
        /\ seqHistorico' = IF Nativo /\ tarefas[t].stmt.tipo = "INSERT INTO historico_promocoes"
                           THEN seqHistorico + 1 ELSE seqHistorico
        /\ tarefas' = Retomar(t, antesDoc)

ForaDasTarefas ==
    <<backend, relogio, pc, op, id, data, updates, result, promocao, hoje,
      promocoesExpiradas, existeNoHistorico, antes, sweepAnterior, chamadas,
      falha, erro, callback, transacao>>

\* the SQL engine runs the statement of call t: one step
RunAsyncNativo(t) ==
    /\ Nativo
    /\ tarefas[t].pc = "runAsync"
    /\ Gravar(t, Agora)
    /\ UNCHANGED ForaDasTarefas

\* web runAsync of call t: const data = await AsyncStorage.getItem(...)
RunAsyncGetItem(t) ==
    /\ ~Nativo
    /\ tarefas[t].pc = "runAsync"
    /\ tarefas[t].database = <<>>
    /\ tarefas' = [tarefas EXCEPT ![t].database = <<Agora>>]
    /\ UNCHANGED <<ForaDasTarefas, Banco>>

\* web runAsync of call t: the change of the parsed document and
\* await AsyncStorage.setItem(..., JSON.stringify(database))
RunAsyncSetItem(t) ==
    /\ ~Nativo
    /\ tarefas[t].pc = "runAsync"
    /\ tarefas[t].database # <<>>
    /\ Gravar(t, tarefas[t].database[1])
    /\ UNCHANGED ForaDasTarefas

\* a service function is called while no sequential call is in progress
Chamar(tarefa) ==
    /\ pc \in {"idle", "tarefas"}
    /\ Len(tarefas) < MaxTarefas
    /\ chamadas < MaxChamadas
    /\ chamadas' = chamadas + 1
    /\ pc' = "tarefas"
    /\ antes' = IF pc = "idle" THEN Agora ELSE antes
    /\ tarefas' = Append(tarefas, tarefa)
    /\ UNCHANGED <<backend, Banco, relogio, op, Locais, sweepAnterior, falha, erro,
                   callback, transacao>>

ChamarCriarPromocao(d) ==
    Chamar(Await([NovaTarefa EXCEPT !.op = "criarPromocao", !.data = d],
                 "INSERT INTO promocoes",
                 <<d.produtoId, d.produtoNome, d.desconto, d.dataInicio, d.dataFim,
                   d.dataCriacao, StatusInicial(d.dataFim)>>,
                 "criar_historico"))

ChamarAtualizarPromocao(pid, u) ==
    Chamar(IF Len(Campos(u)) = 0
           THEN [NovaTarefa EXCEPT !.op = "atualizarPromocao", !.id = pid,
                                   !.updates = u, !.pc = "ret"]
           ELSE Await([NovaTarefa EXCEPT !.op = "atualizarPromocao", !.id = pid,
                                         !.updates = u],
                      "UPDATE promocoes WHERE id = ?", <<u, pid>>,
                      IF TemCampo(u, "desconto") THEN "atualizar_busca" ELSE "ret"))

ChamarExcluirPromocao(pid) ==
    Chamar([NovaTarefa EXCEPT !.op = "excluirPromocao", !.id = pid,
                              !.pc = "excluir_busca"])

ChamarAtualizarStatusPromocoes ==
    Chamar(Await([NovaTarefa EXCEPT !.op = "atualizarStatusPromocoes",
                                    !.hoje = Dia(relogio)],
                 "UPDATE promocoes WHERE data_fim < ?", <<Dia(relogio)>>,
                 "sweep_select"))

\* a step of call t that leaves the tables alone
Passo_(t, tarefa) ==
    /\ tarefas' = [tarefas EXCEPT ![t] = tarefa]
    /\ UNCHANGED <<ForaDasTarefas, Banco>>

TarefaCriarPromocaoHistorico(t) ==
    LET c == tarefas[t] IN
    /\ c.pc = "criar_historico"
    /\ Passo_(t, Await(c, "INSERT INTO historico_promocoes",
                       <<c.result, c.data.produtoNome, c.data.desconto,
                         c.data.dataInicio, c.data.dataFim, "criada",
                         c.data.dataCriacao>>, "ret"))

TarefaAtualizarPromocaoBusca(t) ==
    LET c == tarefas[t]
        p == BuscarPromocaoPorId(c.id)
    IN  /\ c.pc = "atualizar_busca"
        /\ Passo_(t, IF p = <<>> THEN [c EXCEPT !.pc = "ret"]
                     ELSE Await([c EXCEPT !.promocao = p],
                                "INSERT INTO historico_promocoes",
                                <<c.id, Prop(p[1], "produtoNome"),
                                  ValorDe(c.updates, "desconto"),
                                  Prop(p[1], "dataInicio"), Prop(p[1], "dataFim"),
                                  "atualizada", Dia(relogio)>>, "ret"))

TarefaExcluirPromocaoBusca(t) ==
    LET c == tarefas[t]
        p == BuscarPromocaoPorId(c.id)
    IN  /\ c.pc = "excluir_busca"
        /\ Passo_(t, IF p = <<>>
                     THEN Await(c, "DELETE FROM promocoes", <<c.id>>, "ret")
                     ELSE Await([c EXCEPT !.promocao = p],
                                "INSERT INTO historico_promocoes",
                                <<c.id, Prop(p[1], "produtoNome"),
                                  Prop(p[1], "desconto"), Prop(p[1], "dataInicio"),
                                  Prop(p[1], "dataFim"), "excluída", Dia(relogio)>>,
                                "excluir_delete"))

TarefaExcluirPromocaoDelete(t) ==
    LET c == tarefas[t] IN
    /\ c.pc = "excluir_delete"
    /\ Passo_(t, Await(c, "DELETE FROM promocoes", <<c.id>>, "ret"))

TarefaAtualizarStatusSelect(t) ==
    LET c == tarefas[t]
        r == GetAllAsync("promocoesExpiradas", <<c.hoje>>)
    IN  /\ c.pc = "sweep_select"
        /\ Passo_(t, [c EXCEPT !.promocoesExpiradas = r,
                               !.pc = IF r = <<>> THEN "ret" ELSE "sweep_existe"])

\* one turn of the for loop: the getFirstAsync and, when it finds no entry,
\* the call of runAsync
TarefaAtualizarStatusExiste(t) ==
    LET c == tarefas[t]
        p == Head(c.promocoesExpiradas)
        e == GetFirstAsync("existeNoHistorico", <<p.id>>)
        resto == Tail(c.promocoesExpiradas)
        depois == IF resto = <<>> THEN "ret" ELSE "sweep_existe"
    IN  /\ c.pc = "sweep_existe"
        /\ Passo_(t, IF e # <<>>
                     THEN [c EXCEPT !.promocoesExpiradas = resto, !.pc = depois]
                     ELSE Await([c EXCEPT !.promocoesExpiradas = resto,
                                          !.promocao = <<p>>],
                                "INSERT INTO historico_promocoes",
                                <<p.id, Prop(p, "produtoNome"), Prop(p, "desconto"),
                                  Prop(p, "dataInicio"), Prop(p, "dataFim"),
                                  "expirada", c.hoje>>, depois))

Tarefas == DOMAIN tarefas

\* the inputs of the interleaved calls: promotions that end on day 2, a new
\* discount or a status
DadosConcorrentes == {d \in DadosDeCriacao : d.dataFim = Dia(2)}
UpdatesConcorrentes == {<<<<"desconto", "30">>>>, <<<<"status", "ativa">>>>}

\* the service on the native engine or on the document of web.ts
InitConcorrente == backend \in {"native", "web"} /\ Vazio

\* the store is filled by calls that run one after the other (criarPromocao
\* on different days), then calls run interleaved
NextConcorrente ==
    \/ \E d \in DadosConcorrentes : CriarPromocao(d)
    \/ CriarPromocaoHistorico
    \/ Retornar
    \/ PassarDia
    \/ \E d \in DadosConcorrentes : ChamarCriarPromocao(d)
    \/ \E pid \in IdsDeEntrada, u \in UpdatesConcorrentes : ChamarAtualizarPromocao(pid, u)
    \/ \E pid \in IdsDeEntrada : ChamarExcluirPromocao(pid)
    \/ ChamarAtualizarStatusPromocoes
    \/ \E t \in Tarefas : RunAsyncNativo(t)
    \/ \E t \in Tarefas : RunAsyncGetItem(t)
    \/ \E t \in Tarefas : RunAsyncSetItem(t)
    \/ \E t \in Tarefas : TarefaCriarPromocaoHistorico(t)
    \/ \E t \in Tarefas : TarefaAtualizarPromocaoBusca(t)
    \/ \E t \in Tarefas : TarefaExcluirPromocaoBusca(t)
    \/ \E t \in Tarefas : TarefaExcluirPromocaoDelete(t)
    \/ \E t \in Tarefas : TarefaAtualizarStatusSelect(t)
    \/ \E t \in Tarefas : TarefaAtualizarStatusExiste(t)

SpecConcorrente == InitConcorrente /\ [][NextConcorrente]_vars

TypeOK ==
    /\ backend \in Adaptadores
    /\ falha \subseteq {"promocoes", "historico_promocoes"}
    /\ erro \in {"", "lançado"}
    /\ Len(transacao) <= 1
    /\ Len(promocoes) <= MaxPromocoes
    /\ Len(historico_promocoes) <= MaxHistorico
    /\ relogio \in 1..MaxDia

(* ============================ the claims =============================== *)
Linha(tabela, pid) == tabela[CHOOSE i \in 1..Len(tabela) : tabela[i].id = pid]
Ultimo(s) == s[Len(s)]
\* the table t is the table s with exactly one more row at its end
UmaAMais(s, t) == Len(t) = Len(s) + 1 /\ SubSeq(t, 1, Len(s)) = s
Prefixo(s, t) == Len(s) <= Len(t) /\ SubSeq(t, 1, Len(s)) = s
EntradasDe(pid, acao) ==
    {i \in 1..Len(historico_promocoes) :
        /\ historico_promocoes[i].promocao_id = pid
        /\ historico_promocoes[i].acao = acao}

\* C1: at the return of an evaluation on day T (criarPromocao for the row it
\* created, atualizarStatusPromocoes for every stored row, whatever
\* atualizarPromocao did to it before), a promotion is 'ativa' when its end
\* date is strictly after T and 'expirada' otherwise, also when the end date
\* is T itself.
C1_StatusSegueDataFim ==
    /\ (pc = "ret" /\ op = "criarPromocao") =>
          Linha(promocoes, result).status =
              IF Menor(Dia(relogio), Linha(promocoes, result).data_fim)
              THEN "ativa" ELSE "expirada"
    /\ (pc = "ret" /\ op = "atualizarStatusPromocoes") =>
          \A i \in 1..Len(promocoes) :
              promocoes[i].status =
                  IF Menor(hoje, promocoes[i].data_fim) THEN "ativa" ELSE "expirada"

\* C2: when criarPromocao returns, the history is the history before the call
\* plus one 'criada' entry for the returned identifier, carrying the product
\* name, discount, start date and end date of the call and of the stored row.
C2_CriarGravaUmaCriada ==
    (pc = "ret" /\ op = "criarPromocao") =>
        /\ UmaAMais(antes.historico_promocoes, historico_promocoes)
        /\ LET e == Ultimo(historico_promocoes)
               p == Linha(promocoes, result)
           IN  /\ e.acao = "criada"
               /\ e.promocao_id = result
               /\ result \in Ids(promocoes) \ Ids(antes.promocoes)
               /\ <<e.produto_nome, e.desconto, e.data_inicio, e.data_fim>>
                    = <<data.produtoNome, data.desconto, data.dataInicio, data.dataFim>>
               /\ <<e.produto_nome, e.desconto, e.data_inicio, e.data_fim>>
                    = <<p.produto_nome, p.desconto, p.data_inicio, p.data_fim>>

C2_Witness ==
    /\ pc = "ret" /\ op = "criarPromocao"
    /\ Len(antes.historico_promocoes) >= 1
    /\ Ultimo(historico_promocoes).acao = "criada"
    /\ Ultimo(historico_promocoes).data_fim # Ultimo(historico_promocoes).data_inicio

\* C3: excluirPromocao(id) of a stored promotion writes exactly one 'excluída'
\* entry for id while the row is still stored, and once it returns the row is
\* in neither buscarTodasPromocoes nor buscarPromocaoPorId.
C3_ExcluirGravaAntesDeRemover ==
    /\ (pc = "excluir_delete" /\ id \in Ids(antes.promocoes)) =>
          /\ UmaAMais(antes.historico_promocoes, historico_promocoes)
          /\ Ultimo(historico_promocoes).acao = "excluída"
          /\ Ultimo(historico_promocoes).promocao_id = id
          /\ promocoes = antes.promocoes
    /\ (pc = "ret" /\ op = "excluirPromocao" /\ id \in Ids(antes.promocoes)) =>
          /\ UmaAMais(antes.historico_promocoes, historico_promocoes)
          /\ Ultimo(historico_promocoes).acao = "excluída"
          /\ Ultimo(historico_promocoes).promocao_id = id
          /\ id \notin Ids(BuscarTodasPromocoes)
          /\ BuscarPromocaoPorId(id) = <<>>
          /\ id \notin Ids(promocoes)

C3_Witness ==
    /\ pc = "ret" /\ op = "excluirPromocao"
    /\ id \in Ids(antes.promocoes)
    /\ Len(antes.promocoes) = 2
    /\ Len(promocoes) = 1
    /\ Ultimo(historico_promocoes).acao = "excluída"

\* C4: excluirPromocao(id) of an identifier that is not stored runs to its
\* return and leaves both tables as they were, at every step.
C4_ExcluirInexistenteNadaMuda ==
    (op = "excluirPromocao" /\ id \notin Ids(antes.promocoes)) =>
        /\ pc \in {"excluir_delete", "ret"}
        /\ promocoes = antes.promocoes
        /\ historico_promocoes = antes.historico_promocoes

C4_Witness ==
    /\ pc = "ret" /\ op = "excluirPromocao"
    /\ id \notin Ids(antes.promocoes)
    /\ Len(promocoes) >= 1
    /\ Len(historico_promocoes) >= 1

\* C5: the history never holds two 'expirada' entries for one promotion, and
\* a run of atualizarStatusPromocoes that directly follows a run of the same
\* day changes neither table.
C5_SweepIdempotente ==
    /\ \A i, j \in 1..Len(historico_promocoes) :
          (/\ i # j
           /\ historico_promocoes[i].acao = "expirada"
           /\ historico_promocoes[j].acao = "expirada")
          => historico_promocoes[i].promocao_id # historico_promocoes[j].promocao_id
    /\ (pc = "ret" /\ op = "atualizarStatusPromocoes" /\ sweepAnterior = DiaNum(hoje)) =>
          /\ promocoes = antes.promocoes
          /\ historico_promocoes = antes.historico_promocoes

C5_Witness ==
    /\ pc = "ret" /\ op = "atualizarStatusPromocoes"
    /\ sweepAnterior = DiaNum(hoje)
    /\ \E i \in 1..Len(historico_promocoes) :
          /\ historico_promocoes[i].acao = "expirada"
          /\ historico_promocoes[i].data_acao = hoje

\* C6: atualizarPromocao on a stored promotion adds one 'atualizada' entry for
\* it when updates has desconto and no entry when it has not.
C6_AtualizadaSoComDesconto ==
    (pc = "ret" /\ op = "atualizarPromocao" /\ id \in Ids(antes.promocoes)) =>
        IF TemCampo(updates, "desconto")
        THEN /\ UmaAMais(antes.historico_promocoes, historico_promocoes)
             /\ Ultimo(historico_promocoes).acao = "atualizada"
             /\ Ultimo(historico_promocoes).promocao_id = id
        ELSE historico_promocoes = antes.historico_promocoes

C6_Witness ==
    /\ pc = "ret" /\ op = "atualizarPromocao"
    /\ id \in Ids(antes.promocoes)
    /\ TemCampo(updates, "desconto")
    /\ Ultimo(historico_promocoes).acao = "atualizada"
    /\ Len(promocoes) = 2

\* C7: with no operation in progress obterEstatisticasPromocoes returns the
\* number of rows, of 'ativa' rows, of 'expirada' rows and of 'excluída'
\* history entries.
C7_EstatisticasContam ==
    pc = "idle" =>
        LET ativa(p) == p.status = "ativa"
            expirada(p) == p.status = "expirada"
            excluida(h) == h.acao = "excluída"
        IN  ObterEstatisticasPromocoes =
                [total |-> Len(promocoes),
                 ativas |-> Contar(promocoes, ativa),
                 expiradas |-> Contar(promocoes, expirada),
                 canceladas |-> Contar(historico_promocoes, excluida)]

\* C8: when atualizarStatusPromocoes of day T returns, every promotion that
\* was 'ativa' with an end date before T is 'expirada' with data_expiracao T
\* and has exactly one 'expirada' history entry, whose data_acao is T.
C8_SweepExpiraEGrava ==
    (pc = "ret" /\ op = "atualizarStatusPromocoes") =>
        \A i \in 1..Len(antes.promocoes) :
            LET a == antes.promocoes[i] IN
            (a.status = "ativa" /\ Menor(a.data_fim, hoje)) =>
                /\ Linha(promocoes, a.id).status = "expirada"
                /\ Linha(promocoes, a.id).data_expiracao = hoje
                /\ Cardinality(EntradasDe(a.id, "expirada")) = 1
                /\ \A k \in EntradasDe(a.id, "expirada") :
                      historico_promocoes[k].data_acao = hoje

\* a step leaves the status of every promotion stored before and after it,
\* or takes it from 'ativa' to 'expirada'
StatusSoExpira ==
    \A i \in 1..Len(promocoes), j \in 1..Len(promocoes') :
        promocoes[i].id = promocoes'[j].id =>
            \/ promocoes'[j].status = promocoes[i].status
            \/ promocoes[i].status = "ativa" /\ promocoes'[j].status = "expirada"

C10_HistoricoSoCresce ==
    [][Prefixo(historico_promocoes, historico_promocoes')]_vars

C10_Witness ==
    /\ pc = "ret" /\ op = "excluirPromocao"
    /\ Len(historico_promocoes) >= 3
    /\ \E i \in 1..Len(historico_promocoes) :
          /\ historico_promocoes[i].acao = "criada"
          /\ historico_promocoes[i].promocao_id = id
          /\ id \notin Ids(promocoes)

\* the writes of table tab that the unit of work has made: its statement was
\* reached and did not fail in the store
EscritasFeitas(tab) ==
    IF /\ \E i \in 1..(callback.proximo - 1) : callback.passos[i] = tab
       /\ tab \notin falha
    THEN 1 ELSE 0

\* C11: when withTransactionAsync(callback) returns on any adapter: if the
\* callback completed, every write it made is stored and no error is thrown;
\* if the callback failed after some writes, both tables are as they were
\* before the call and the error is thrown to the caller.
C11_TransacaoTudoOuNada ==
    (pc = "ret" /\ op = "withTransactionAsync") =>
        IF callback.passos[callback.proximo - 1] = "throw" \/ erro = "lançado"
        THEN /\ erro = "lançado"
             /\ promocoes = antes.promocoes
             /\ historico_promocoes = antes.historico_promocoes
        ELSE /\ Prefixo(antes.promocoes, promocoes)
             /\ Prefixo(antes.historico_promocoes, historico_promocoes)
             /\ Len(promocoes) = Len(antes.promocoes) + EscritasFeitas("promocoes")
             /\ Len(historico_promocoes) =
                   Len(antes.historico_promocoes) + EscritasFeitas("historico_promocoes")

\* C12: with no operation in progress, buscarPromocoesPorStatus(s) returns
\* each stored promotion whose status is s exactly once and no other row, the
\* later creation date first.
C12_PorStatusFiltraEOrdena ==
    pc = "idle" =>
        \A s \in {"ativa", "expirada"} :
            LET r == BuscarPromocoesPorStatus(s)
                comStatus(p) == p.status = s
            IN  /\ Ids(r) = Ids(SelectSeq(promocoes, comStatus))
                /\ Len(r) = Contar(promocoes, comStatus)
                /\ \A i \in 1..Len(r) : r[i].status = s
                /\ \A i, j \in 1..Len(r) :
                      i < j => ~Menor(Linha(promocoes, r[i].id).data_criacao,
                                      Linha(promocoes, r[j].id).data_criacao)

\* C13: every stored promotion whose status is 'expirada' has data_expiracao
\* set to a date; the row criarPromocao made 'expirada' on day T has
\* data_expiracao T, and so has every row a run of atualizarStatusPromocoes
\* on day T took from 'ativa' to 'expirada'.
C13_ExpiradaTemDataExpiracao ==
    /\ \A i \in 1..Len(promocoes) :
          promocoes[i].status = "expirada" => promocoes[i].data_expiracao \in Dias
    /\ (pc = "ret" /\ op = "criarPromocao"
           /\ Linha(promocoes, result).status = "expirada") =>
          Linha(promocoes, result).data_expiracao = Dia(relogio)
    /\ (pc = "ret" /\ op = "atualizarStatusPromocoes") =>
          \A i \in 1..Len(promocoes) :
              (/\ promocoes[i].status = "expirada"
               /\ antes.promocoes[i].status = "ativa")
              => promocoes[i].data_expiracao = hoje

\* C14: when atualizarPromocao with a desconto returns for a stored promotion,
\* the 'atualizada' entry it wrote carries the desconto of the request and the
\* product name, start date and end date the row had before the call.
C14_AtualizadaLevaDadosAnteriores ==
    (/\ pc = "ret" /\ op = "atualizarPromocao"
     /\ id \in Ids(antes.promocoes)
     /\ TemCampo(updates, "desconto")) =>
        LET e == Ultimo(historico_promocoes)
            a == Linha(antes.promocoes, id)
        IN  /\ UmaAMais(antes.historico_promocoes, historico_promocoes)
            /\ e.acao = "atualizada"
            /\ e.desconto = ValorDe(updates, "desconto")
            /\ <<e.produto_nome, e.data_inicio, e.data_fim>>
                 = <<a.produto_nome, a.data_inicio, a.data_fim>>

\* the columns of a promotion row
Colunas ==
    {"id", "produto_id", "produto_nome", "desconto", "data_inicio", "data_fim",
     "data_criacao", "status", "data_expiracao"}

\* C15: when atualizarPromocao(id, updates) with a non-empty updates returns
\* for a stored promotion, on the native or on a web adapter, every column
\* updates names holds the value given for it, every other column of the row
\* is as before the call, and so is every other row.
C15_AtualizaSoOsCamposDados ==
    (/\ pc = "ret" /\ op = "atualizarPromocao"
     /\ id \in Ids(antes.promocoes)
     /\ updates # <<>>) =>
        /\ Len(promocoes) = Len(antes.promocoes)
        /\ \A i \in 1..Len(promocoes) :
              IF antes.promocoes[i].id # id
              THEN promocoes[i] = antes.promocoes[i]
              ELSE \A c \in Colunas :
                      promocoes[i][c] =
                          IF \E k \in 1..Len(updates) : Coluna(updates[k][1]) = c
                          THEN ValorDe(updates,
                                 CHOOSE f \in {"produtoNome", "desconto", "dataInicio",
                                               "dataFim", "status"} :
                                     Coluna(f) = c /\ TemCampo(updates, f))
                          ELSE antes.promocoes[i][c]

\* the promotion a finished call wrote to: the one it created, updated or
\* deleted (0 for atualizarStatusPromocoes)
Alvo(c) ==
    CASE c.op = "criarPromocao" -> c.result
      [] c.op \in {"atualizarPromocao", "excluirPromocao"} -> c.id
      [] OTHER -> 0

\* the history holds an entry for pid and acao that was written after the
\* calls began
EntradaNova(pid, acao) ==
    \E i \in EntradasDe(pid, acao) : i > Len(antes.historico_promocoes)

\* what the call c leaves behind when it runs alone
EfeitoDe(c) ==
    CASE c.op = "criarPromocao" ->
            /\ c.result \in Ids(promocoes)
            /\ Linha(promocoes, c.result).data_criacao = c.data.dataCriacao
            /\ EntradaNova(c.result, "criada")
      [] c.op = "excluirPromocao" /\ c.id \in Ids(antes.promocoes) ->
            /\ c.id \notin Ids(promocoes)
            /\ EntradaNova(c.id, "excluída")
      [] c.op = "atualizarPromocao" /\ c.id \in Ids(antes.promocoes)
            /\ TemCampo(c.updates, "desconto") ->
            /\ Linha(promocoes, c.id).desconto = ValorDe(c.updates, "desconto")
            /\ EntradaNova(c.id, "atualizada")
      [] OTHER -> TRUE

\* C16: when two interleaved calls of criarPromocao, atualizarPromocao or
\* excluirPromocao have both finished, on the native or on the web backend,
\* two criarPromocao have returned different identifiers and stored two rows,
\* and calls that wrote to different promotions have each left what they
\* leave when they run alone: no write is lost.
C16_SemPerdaNemIdDuplicado ==
    (/\ Len(tarefas) = 2
     /\ tarefas[1].pc = "ret" /\ tarefas[2].pc = "ret"
     /\ tarefas[1].op # "atualizarStatusPromocoes"
     /\ tarefas[2].op # "atualizarStatusPromocoes") =>
        /\ (tarefas[1].op = "criarPromocao" /\ tarefas[2].op = "criarPromocao") =>
              /\ tarefas[1].result # tarefas[2].result
              /\ Len(promocoes) = Len(antes.promocoes) + 2
        /\ Alvo(tarefas[1]) # Alvo(tarefas[2]) =>
              EfeitoDe(tarefas[1]) /\ EfeitoDe(tarefas[2])

\* C17: when criarPromocao returns after its promotion insert succeeded and
\* its history insert failed in the store, the new row is stored, the history
\* is as before the call, and the failure has been thrown to the caller.
C17_CriarNaoAtomicoRelanca ==
    (pc = "ret" /\ op = "criarPromocao" /\ falha = {"historico_promocoes"}) =>
        /\ UmaAMais(antes.promocoes, promocoes)
        /\ Ultimo(promocoes).id = result
        /\ historico_promocoes = antes.historico_promocoes
        /\ erro = "lançado"

\* C18: the step that calls atualizarPromocao with an empty updates is the
\* whole call: it ends at the return, with no statement awaited, and leaves
\* the promotions table, the history table and their sequences as they were.
C18_UpdatesVazioNadaFaz ==
    [][(pc = "idle" /\ op' = "atualizarPromocao" /\ updates' = <<>>) =>
          /\ pc' = "ret"
          /\ UNCHANGED Banco]_vars

C18_Witness ==
    /\ pc = "ret" /\ op = "atualizarPromocao"
    /\ updates = <<>>
    /\ id \in Ids(promocoes)
    /\ Len(historico_promocoes) >= 1

\* C19: the identifier criarPromocao returns was never returned before: when
\* the call returns, no entry of the history as it was before the call (which
\* holds the 'criada' entry of every earlier criarPromocao, deleted or not)
\* carries that identifier as its promocao_id.
C19_IdNuncaReutilizado ==
    (pc = "ret" /\ op = "criarPromocao") =>
        \A i \in 1..Len(antes.historico_promocoes) :
            antes.historico_promocoes[i].promocao_id # result

\* C20: once excluirPromocao has written its 'excluída' entry for a stored
\* promotion, the entry carries the product name, the discount, the start date
\* and the end date of the row being deleted, on every backend.
C20_ExcluidaLevaDadosDaLinha ==
    (/\ op = "excluirPromocao"
     /\ pc \in {"excluir_delete", "ret"}
     /\ id \in Ids(antes.promocoes)) =>
        LET e == Ultimo(historico_promocoes)
            a == Linha(antes.promocoes, id)
        IN  /\ e.acao = "excluída"
            /\ e.promocao_id = id
            /\ <<e.produto_nome, e.desconto, e.data_inicio, e.data_fim>>
                 = <<a.produto_nome, a.desconto, a.data_inicio, a.data_fim>>
====
